---- MODULE Spec2Model ----
(***************************************************************************)
(* Model of python/cadquery-server/server.py: the bounded-execution        *)
(* supervisor (run_with_timeout, /execute, /export) and the mesh assembler *)
(* (convert_to_mesh).                                                      *)
(***************************************************************************)
EXTENDS Integers, Sequences, FiniteSets, TLC

\* ---------------------------------------------------------------- bounds
\* faces the kernel's explorer yields for one shape
MaxFaces == 2
\* nodes of one shape, over all its faces
MaxNodes == 3
\* triangles of one shape, over all its faces
MaxTris == 1
\* statements of one submitted script
MaxCode == 2
\* largest timeout a request names, in seconds
MaxTimeout == 1
\* seconds the clock is followed one by one
MaxClock == 2

\* ------------------------------------------------------- mesh: constants
\* TopAbs_Orientation as the kernel numbers it: the code tests "== 1"
TopAbs_FORWARD == 0
TopAbs_REVERSED == 1

VARIABLES
    \* convert_to_mesh
    mpc,            \* "idle" | "faces" (inside the while loop) | "returned"
    explored,       \* the faces the explorer has yielded so far, in order
    vertices,       \* flat vertex buffer
    faces,          \* flat index buffer
    normals,        \* flat normal buffer
    vertex_offset,
    \* one request to /execute or /export
    route,          \* "none" | "execute" | "export"
    hpc,            \* the handler: "idle" | "join" | "check" | "exec" | "done"
    code,           \* request.json['code']
    code_clean,
    timeout,        \* request.json.get('timeout', 120)
    result_obj,     \* exec_globals['result_obj'] (/execute), result_obj (/export)
    result0,        \* run_with_timeout's result[0]
    wpc,            \* the worker thread: "none" | "run" | "exit" | "dead"
    alive,          \* thread.is_alive()
    ip,             \* the next statement of code_clean to run
    spin,           \* flips on every pass of a script's endless loop
    elapsed,        \* seconds since thread.join(timeout) was entered
    joined,         \* what is_alive() said after the join: "pending" | "finished" | "timeout"
    outcome,        \* how run_with_timeout ended: returned or raised, and what
    func_end,       \* how func ended in the worker: returned or raised, and what
    meshed,         \* the argument convert_to_mesh was called with
    ran,            \* statements of the script that have run
    response

meshVars == <<mpc, explored, vertices, faces, normals, vertex_offset>>

execVars == <<route, hpc, code, code_clean, timeout, result_obj, result0, wpc,
              alive, ip, spin, elapsed, joined, outcome, func_end, meshed, ran,
              response>>

vars == <<meshVars, execVars>>

\* ------------------------------------------------------- mesh: the kernel
\* Node i of a triangulation, in the face's local coordinates: the kernel's
\* nodes lie on a planar grid, so every triangle normal is axis-aligned and
\* every length below is an exact integer.
NodeAt(i) == <<i % 2, i \div 2, 0>>

Locations == {"identity", "rotated"}

IsIdentity(loc) == loc = "identity"

\* location.Transformation(): the rigid rotation (x, y, z) -> (z, x, y)
Transform(loc, p) == IF loc = "rotated" THEN <<p[3], p[1], p[2]>> ELSE p

Triples(n) == (1..n) \X (1..n) \X (1..n)

RECURSIVE SeqsOfLen(_, _)
SeqsOfLen(S, k) ==
    IF k = 0 THEN {<<>>}
    ELSE {Append(s, x) : s \in SeqsOfLen(S, k - 1), x \in S}

\* BRep_Tool.Triangulation_s(face, location) returning None
NoTriangulation ==
    [hasTri |-> FALSE, nbNodes |-> 0, triangles |-> <<>>,
     orientation |-> TopAbs_FORWARD, location |-> "identity"]

\* a face with a triangulation of n >= 1 nodes and k triangles, every
\* triangle's indices in [1, n]
TriangulatedFaces(n, k) ==
    {[hasTri |-> TRUE, nbNodes |-> n, triangles |-> ts,
      orientation |-> o, location |-> l] :
        ts \in SeqsOfLen(Triples(n), k),
        o \in {TopAbs_FORWARD, TopAbs_REVERSED},
        l \in Locations}

\* ---------------------------------------------------- mesh: arithmetic
Sqrt(n) == CHOOSE r \in 0..n : r * r <= n /\ (r + 1) * (r + 1) > n

Dot(a, b) == a[1] * b[1] + a[2] * b[2] + a[3] * b[3]

Sub(a, b) == <<a[1] - b[1], a[2] - b[2], a[3] - b[3]>>

Add(a, b) == <<a[1] + b[1], a[2] + b[2], a[3] + b[3]>>

Neg(a) == <<-a[1], -a[2], -a[3]>>

Cross(e1, e2) ==
    <<e1[2] * e2[3] - e1[3] * e2[2],
      e1[3] * e2[1] - e1[1] * e2[3],
      e1[1] * e2[2] - e1[2] * e2[1]>>

\* x / length for an integer x that length divides (sign kept)
Quot(x, length) == IF x < 0 THEN -((-x) \div length) ELSE x \div length

Scale(a, length) == <<Quot(a[1], length), Quot(a[2], length), Quot(a[3], length)>>

RECURSIVE Flatten(_)
Flatten(ss) == IF ss = <<>> THEN <<>> ELSE Head(ss) \o Flatten(Tail(ss))

\* ------------------------------------------------ mesh: convert_to_mesh
\* lines 296-302: the face's nodes in world coordinates
FaceVertices(f) ==
    [i \in 1..f.nbNodes |->
        IF ~IsIdentity(f.location) THEN Transform(f.location, NodeAt(i))
        ELSE NodeAt(i)]

\* EmitTriangle with the kernel's 1-based node numbers left as they are
EmitTriangleOneBased(t, offset, face_orientation) ==
    LET idx1 == t[1] + offset
        idx2 == t[2] + offset
        idx3 == t[3] + offset
    IN IF face_orientation = 1 THEN <<idx1, idx3, idx2>>
       ELSE <<idx1, idx2, idx3>>

\* EmitTriangle with the orientation test left out
EmitTriangleNoSwap(t, offset, face_orientation) ==
    <<t[1] - 1 + offset, t[2] - 1 + offset, t[3] - 1 + offset>>

\* lines 309-318: one triangle's global indices, wound by orientation
EmitTriangle(t, offset, face_orientation) ==
    LET idx1 == t[1] - 1 + offset
        idx2 == t[2] - 1 + offset
        idx3 == t[3] - 1 + offset
    IN IF face_orientation = 1 THEN <<idx1, idx3, idx2>>
       ELSE <<idx1, idx2, idx3>>

FaceIndices(f, offset) ==
    Flatten([i \in 1..Len(f.triangles) |->
                EmitTriangle(f.triangles[i], offset, f.orientation)])

\* lines 327-345: one triangle's normal, normalized and oriented
TriangleNormal(face_vertices, t, face_orientation) ==
    LET v1 == face_vertices[t[1]]
        v2 == face_vertices[t[2]]
        v3 == face_vertices[t[3]]
        n == Cross(Sub(v2, v1), Sub(v3, v1))
        length == Sqrt(Dot(n, n))
        unit == IF length > 0 THEN Scale(n, length) ELSE n
    IN IF face_orientation = 1 THEN Neg(unit) ELSE unit

\* lines 347-352: vertex_normals[idx] += n, creating the entry at zero
AddNormal(vn, idx, n) ==
    LET old == IF idx \in DOMAIN vn THEN vn[idx] ELSE <<0, 0, 0>>
    IN [j \in (DOMAIN vn) \cup {idx} |-> IF j = idx THEN Add(old, n) ELSE vn[j]]

\* lines 321-352: the vertex_normals dict after the first k triangles
RECURSIVE VertexNormals(_, _, _, _)
VertexNormals(face_vertices, tris, face_orientation, k) ==
    IF k = 0 THEN [j \in {} |-> <<0, 0, 0>>]
    ELSE LET vn == VertexNormals(face_vertices, tris, face_orientation, k - 1)
             t == tris[k]
             n == TriangleNormal(face_vertices, t, face_orientation)
         IN AddNormal(AddNormal(AddNormal(vn, t[1] - 1, n), t[2] - 1, n),
                      t[3] - 1, n)

\* NodeNormal without the default for a zero-length sum
NodeNormalNoDefault(vn, i) ==
    IF i \in DOMAIN vn
    THEN LET length == Sqrt(Dot(vn[i], vn[i]))
         IN IF length > 0 THEN Scale(vn[i], length) ELSE vn[i]
    ELSE <<0, 0, 1>>

\* lines 355-363: the normal emitted for local node i (0-based)
NodeNormal(vn, i) ==
    IF i \in DOMAIN vn
    THEN LET length == Sqrt(Dot(vn[i], vn[i]))
         IN IF length > 0 THEN Scale(vn[i], length) ELSE <<0, 0, 1>>
    ELSE <<0, 0, 1>>

\* FaceNormals without the default for a node no triangle uses
FaceNormalsUsedOnly(f) ==
    LET vn == VertexNormals(FaceVertices(f), f.triangles, f.orientation,
                            Len(f.triangles))
    IN Flatten([i \in 1..f.nbNodes |->
                    IF (i - 1) \in DOMAIN vn THEN NodeNormal(vn, i - 1) ELSE <<>>])

\* lines 354-363: the normals of the face's nodes, in node order
FaceNormals(f) ==
    LET vn == VertexNormals(FaceVertices(f), f.triangles, f.orientation,
                            Len(f.triangles))
    IN Flatten([i \in 1..f.nbNodes |-> NodeNormal(vn, i - 1)])

\* lines 275-285: the buffers before the first face
ConvertStart ==
    /\ mpc = "idle"
    /\ mpc' = "faces"
    /\ UNCHANGED <<explored, vertices, faces, normals, vertex_offset>>

\* nodes and triangles the bounds still allow
NodesLeft == MaxNodes - vertex_offset

TrisLeft == MaxTris - (Len(faces) \div 3)

\* lines 287-367, triangulation present: one pass of the while loop
ProcessFace ==
    /\ mpc = "faces"
    /\ Len(explored) < MaxFaces
    /\ \E n \in 1..NodesLeft : \E k \in 0..TrisLeft :
        \E f \in TriangulatedFaces(n, k) :
            /\ explored' = Append(explored, f)
            /\ vertices' = vertices \o Flatten(FaceVertices(f))
            /\ faces' = faces \o FaceIndices(f, vertex_offset)
            /\ normals' = normals \o FaceNormals(f)
            /\ vertex_offset' = vertex_offset + f.nbNodes
    /\ UNCHANGED mpc

\* lines 287-292, 367: triangulation is None, the face is passed over
SkipFace ==
    /\ mpc = "faces"
    /\ Len(explored) < MaxFaces
    /\ explored' = Append(explored, NoTriangulation)
    /\ UNCHANGED <<mpc, vertices, faces, normals, vertex_offset>>

\* lines 287, 369: face_explorer.More() is false
ReturnMesh ==
    /\ mpc = "faces"
    /\ mpc' = "returned"
    /\ UNCHANGED <<explored, vertices, faces, normals, vertex_offset>>

MeshNext ==
    /\ ConvertStart \/ ProcessFace \/ SkipFace \/ ReturnMesh
    /\ UNCHANGED execVars

\* ------------------------------------------------- supervisor: values
\* a Python object: its class and what str() or repr() shows of it
Obj(c, v) == [cls |-> c, v |-> v]

None == Obj("NoneType", "None")

Shapes == {Obj("Workplane", "s1"), Obj("Workplane", "s2")}

\* a value with no .val()
Junk == Obj("int", "7")

\* an exception instance a script passes around as a value
PublishedError == Obj("ValueError", "published")

Publishable == Shapes \cup {None, Junk, PublishedError}

ScriptMessages == {"boom", "Fillet failed: timeout"}

\* the classes that derive from Exception; SystemExit derives from
\* BaseException only
ExceptionClasses == {"ValueError", "AttributeError", "RuntimeError", "TimeoutException"}

IsException(o) == o.cls \in ExceptionClasses

\* hasattr(result_obj, 'val')
HasVal(o) == o.cls = "Workplane"

\* line 22: what result[0] holds before the worker writes it
Placeholder == Obj("TimeoutException", "Execution timed out")

DefaultTimeout == 120

\* line 105
dangerous == {"subprocess", "os.system", "eval(", "__import__", "open("}

\* ------------------------------------------------ supervisor: scripts
\* A script is a sequence of statements: publish a value, raise, loop for
\* ever, a statement that uses a denylisted name, or the cadquery import.
Stmt(op, arg) == [op |-> op, arg |-> arg]

Statements ==
    {Stmt("show", o) : o \in Publishable}
    \cup {Stmt("raise", Obj("ValueError", m)) : m \in ScriptMessages}
    \cup {Stmt("raise", Obj("SystemExit", ""))}
    \cup {Stmt("loop", None)}
    \cup {Stmt("text", Obj("str", d)) : d \in dangerous}
    \cup {Stmt("import", Obj("str", "import cadquery as cq"))}

Scripts == UNION {SeqsOfLen(Statements, k) : k \in 0..MaxCode}

\* lines 103-106: no denylisted string occurs in the text
validate_safe_code(c) ==
    ~ \E danger \in dangerous : \E i \in 1..Len(c) : c[i].arg.v = danger

NotImport(st) == st.op # "import"

\* lines 128, 194: code.replace('import cadquery as cq', '').strip()
Clean(c) == SelectSeq(c, NotImport)

\* the timeout field of the request's JSON: absent, null or a number
RequestTimeouts ==
    {[present |-> FALSE, isNull |-> FALSE, n |-> 0],
     [present |-> TRUE, isNull |-> TRUE, n |-> 0]}
    \cup {[present |-> TRUE, isNull |-> FALSE, n |-> n] : n \in 0..MaxTimeout}

\* line 120: request.json.get('timeout', 120)
GetTimeout(req) ==
    IF ~req.present THEN [isNone |-> FALSE, secs |-> DefaultTimeout]
    ELSE IF req.isNull THEN [isNone |-> TRUE, secs |-> 0]
    ELSE [isNone |-> FALSE, secs |-> req.n]

\* ------------------------------------------- supervisor: error replies
\* `kw in error_msg.lower()` for the messages that occur
Contains(error_msg, kw) ==
    CASE error_msg = "Fillet failed: timeout" -> kw \in {"fillet", "timeout"}
      [] error_msg = "BRep_API: command not done" -> kw \in {"brep", "command not done"}
      [] OTHER -> FALSE

\* lines 71-88
categorize_cadquery_error(error_msg) ==
    IF Contains(error_msg, "brep") \/ Contains(error_msg, "command not done")
    THEN "geometric_invalid"
    ELSE IF Contains(error_msg, "no pending wires") \/ Contains(error_msg, "wire")
    THEN "unclosed_wire"
    ELSE IF Contains(error_msg, "fillet") THEN "fillet_error"
    ELSE IF Contains(error_msg, "boolean") \/ Contains(error_msg, "union")
            \/ Contains(error_msg, "cut")
    THEN "boolean_operation"
    ELSE IF Contains(error_msg, "memory") THEN "out_of_memory"
    ELSE IF Contains(error_msg, "timeout") THEN "timeout"
    ELSE "general"

\* lines 90-101: the suggestion is named by the category it belongs to
get_error_suggestion(error_type) ==
    IF error_type \in {"geometric_invalid", "unclosed_wire", "fillet_error",
                       "boolean_operation", "out_of_memory", "timeout", "general"}
    THEN error_type ELSE "general"

\* a reply: its HTTP status, the line that returns it, the keys of its JSON
\* body and the values of the keys the model follows
Reply(status, at, keys, error, error_type) ==
    [status |-> status, at |-> at, keys |-> keys, error |-> error,
     error_type |-> error_type,
     suggestion |-> IF "suggestion" \in keys THEN get_error_suggestion(error_type)
                    ELSE ""]

NoReply == Reply(0, 0, {}, <<>>, "")

\* line 126
UnsafeReply == Reply(400, 126, {"error"}, <<"Code validation failed: unsafe imports">>, "")

\* lines 149-154
TimeoutReply(e) == Reply(500, 150, {"error", "error_type", "suggestion"}, <<e.v>>, "timeout")

\* line 159
NoResultReply == Reply(400, 159, {"error"}, <<"No result - show_object() not called">>, "")

\* lines 165-169
MeshReply == Reply(200, 165, {"vertices", "faces", "normals"}, <<>>, "")

\* lines 171-183
ErrorReply(e) ==
    Reply(500, 178, {"error", "error_type", "suggestion", "traceback"}, <<e.v>>,
          categorize_cadquery_error(e.v))

\* how a call ended
Pending == [kind |-> "pending", obj |-> None]

Returned(o) == [kind |-> "returned", obj |-> o]

Raised(e) == [kind |-> "raised", obj |-> e]

NotCalled == Obj("", "convert_to_mesh not called")

\* lines 275-285 and 117-135 with 20-22: nothing converted, no request yet
Init ==
    /\ mpc = "idle"
    /\ explored = <<>>
    /\ vertices = <<>>
    /\ faces = <<>>
    /\ normals = <<>>
    /\ vertex_offset = 0
    /\ route = "none"
    /\ hpc = "idle"
    /\ code = <<>>
    /\ code_clean = <<>>
    /\ timeout = [isNone |-> FALSE, secs |-> DefaultTimeout]
    /\ result_obj = None
    /\ result0 = Placeholder
    /\ wpc = "none"
    /\ alive = FALSE
    /\ ip = 1
    /\ spin = FALSE
    /\ elapsed = 0
    /\ joined = "pending"
    /\ outcome = Pending
    /\ func_end = Pending
    /\ meshed = NotCalled
    /\ ran = 0
    /\ response = NoReply

\* show_object keeping the first value published
show_object_first(slot, obj) == IF slot = None THEN obj ELSE slot

\* lines 137-138 and 197-199: the publish hook overwrites the one slot
show_object(slot, obj) == obj

\* --------------------------------------------------- /execute handler
\* lines 117-148 and 20-33: validate, build exec_globals, start the worker
\* and enter thread.join(timeout)
ExecuteRequest ==
    /\ hpc = "idle"
    /\ \E c \in Scripts : \E t \in RequestTimeouts :
        /\ route' = "execute"
        /\ code' = c
        /\ timeout' = GetTimeout(t)
        /\ IF ~validate_safe_code(c)
           THEN /\ response' = UnsafeReply
                /\ hpc' = "done"
                /\ UNCHANGED <<code_clean, wpc, alive>>
           ELSE /\ code_clean' = Clean(c)
                /\ wpc' = "run"
                /\ alive' = TRUE
                /\ hpc' = "join"
                /\ UNCHANGED response
    /\ UNCHANGED <<result_obj, result0, ip, spin, elapsed, joined, outcome,
                   func_end, meshed, ran>>
    /\ UNCHANGED meshVars

\* lines 24-28 and 111-113: the worker runs the script's next statement
WorkerStep ==
    /\ wpc = "run"
    /\ ip <= Len(code_clean)
    /\ code_clean[ip].op # "loop"
    /\ LET st == code_clean[ip] IN
        /\ ran' = ran + 1
        /\ CASE st.op = "show" ->
                  /\ result_obj' = show_object(result_obj, st.arg)
                  /\ ip' = ip + 1
                  /\ UNCHANGED <<result0, wpc, func_end>>
             [] st.op = "raise" ->
                  /\ func_end' = Raised(st.arg)
                  /\ result0' = IF IsException(st.arg) THEN st.arg ELSE result0
                  /\ wpc' = "exit"
                  /\ UNCHANGED <<result_obj, ip>>
             [] OTHER ->
                  /\ ip' = ip + 1
                  /\ UNCHANGED <<result_obj, result0, wpc, func_end>>
    /\ UNCHANGED <<route, hpc, code, code_clean, timeout, alive, spin, elapsed,
                   joined, outcome, meshed, response>>
    /\ UNCHANGED meshVars

\* a script's `while True:` goes round once more
WorkerLoop ==
    /\ wpc = "run"
    /\ ip <= Len(code_clean)
    /\ code_clean[ip].op = "loop"
    /\ spin' = ~spin
    /\ UNCHANGED <<route, hpc, code, code_clean, timeout, result_obj, result0,
                   wpc, alive, ip, elapsed, joined, outcome, func_end, meshed,
                   ran, response>>
    /\ UNCHANGED meshVars

\* lines 114 and 26: the script ended, func returns exec_globals.get('result_obj')
WorkerReturn ==
    /\ wpc = "run"
    /\ ip > Len(code_clean)
    /\ func_end' = Returned(result_obj)
    /\ result0' = result_obj
    /\ wpc' = "exit"
    /\ UNCHANGED <<route, hpc, code, code_clean, timeout, result_obj, alive, ip,
                   spin, elapsed, joined, outcome, meshed, ran, response>>
    /\ UNCHANGED meshVars

\* the worker thread ends
WorkerExit ==
    /\ wpc = "exit"
    /\ wpc' = "dead"
    /\ alive' = FALSE
    /\ UNCHANGED <<route, hpc, code, code_clean, timeout, result_obj, result0,
                   ip, spin, elapsed, joined, outcome, func_end, meshed, ran,
                   response>>
    /\ UNCHANGED meshVars

\* thread.join(timeout) has waited its timeout out; join(None) never has
Expired == ~timeout.isNone /\ elapsed >= timeout.secs

\* a second passes while the handler waits in join, or all that is left of
\* the timeout does
Tick ==
    /\ hpc = "join"
    /\ ~Expired
    /\ \/ /\ elapsed < MaxClock
          /\ elapsed' = elapsed + 1
       \/ /\ ~timeout.isNone
          /\ elapsed' = timeout.secs
    /\ UNCHANGED <<route, hpc, code, code_clean, timeout, result_obj, result0,
                   wpc, alive, ip, spin, joined, outcome, func_end, meshed, ran,
                   response>>
    /\ UNCHANGED meshVars

\* line 33: join returns once the thread has ended or the timeout is over
JoinReturns ==
    /\ hpc = "join"
    /\ ~alive \/ Expired
    /\ hpc' = "check"
    /\ UNCHANGED <<route, code, code_clean, timeout, result_obj, result0, wpc,
                   alive, ip, spin, elapsed, joined, outcome, func_end, meshed,
                   ran, response>>
    /\ UNCHANGED meshVars

\* lines 35-42: how run_with_timeout ends
RunWithTimeoutEnd ==
    IF alive THEN Raised(Obj("TimeoutException", "Execution timed out after {timeout}s"))
    ELSE IF IsException(result0) THEN Raised(result0)
    ELSE Returned(result0)

\* lines 156-169 and 171-183: after run_with_timeout returned
AfterRun(mesh_ok) ==
    IF result_obj = None THEN <<NoResultReply, NotCalled>>
    ELSE IF ~HasVal(result_obj)
    THEN <<ErrorReply(Obj("AttributeError", "'int' object has no attribute 'val'")),
           result_obj>>
    ELSE IF ~mesh_ok
    THEN <<ErrorReply(Obj("RuntimeError", "BRep_API: command not done")), result_obj>>
    ELSE <<MeshReply, result_obj>>

\* lines 143-183: the reply to a request whose run_with_timeout ended with o
ExecuteReply(o, mesh_ok) ==
    IF o.kind = "raised"
    THEN IF o.obj.cls = "TimeoutException" THEN <<TimeoutReply(o.obj), NotCalled>>
         ELSE <<ErrorReply(o.obj), NotCalled>>
    ELSE AfterRun(mesh_ok)

\* lines 35-42 and 143-183: is_alive() is read, run_with_timeout ends and the
\* handler answers
ExecuteFinish ==
    /\ hpc = "check"
    /\ joined' = IF alive THEN "timeout" ELSE "finished"
    /\ outcome' = RunWithTimeoutEnd
    /\ \E mesh_ok \in BOOLEAN :
        /\ response' = ExecuteReply(RunWithTimeoutEnd, mesh_ok)[1]
        /\ meshed' = ExecuteReply(RunWithTimeoutEnd, mesh_ok)[2]
    /\ hpc' = "done"
    /\ UNCHANGED <<route, code, code_clean, timeout, result_obj, result0, wpc,
                   alive, ip, spin, elapsed, func_end, ran>>
    /\ UNCHANGED meshVars

\* ---------------------------------------------------- /export handler
\* lines 207, 211, 215, 237, 252, 257
ExportReply(at, error) ==
    Reply(IF at = 237 THEN 200 ELSE IF at \in {252, 257} THEN 500 ELSE 400, at,
          IF at = 237 THEN {} ELSE IF at = 257 THEN {"error", "traceback"}
          ELSE {"error"},
          error, "")

\* lines 189-201: the script is cleaned and exec() is entered on the
\* handler's own thread
ExportRequest ==
    /\ hpc = "idle"
    /\ \E c \in Scripts :
        /\ code' = c
        /\ code_clean' = Clean(c)
    /\ route' = "export"
    /\ hpc' = "exec"
    /\ UNCHANGED <<timeout, result_obj, result0, wpc, alive, ip, spin, elapsed,
                   joined, outcome, func_end, meshed, ran, response>>
    /\ UNCHANGED meshVars

\* lines 204-207: exec() runs the script's next statement
ExportStep ==
    /\ hpc = "exec"
    /\ ip <= Len(code_clean)
    /\ code_clean[ip].op # "loop"
    /\ LET st == code_clean[ip] IN
        /\ ran' = ran + 1
        /\ CASE st.op = "show" ->
                  /\ result_obj' = show_object(result_obj, st.arg)
                  /\ ip' = ip + 1
                  /\ UNCHANGED <<hpc, response>>
             [] st.op = "raise" ->
                  /\ hpc' = "done"
                  /\ response' =
                        IF IsException(st.arg)
                        THEN ExportReply(207, <<"Code execution failed: ", st.arg.v>>)
                        ELSE NoReply
                  /\ UNCHANGED <<result_obj, ip>>
             [] OTHER ->
                  /\ ip' = ip + 1
                  /\ UNCHANGED <<result_obj, hpc, response>>
    /\ UNCHANGED <<route, code, code_clean, timeout, result0, wpc, alive, spin,
                   elapsed, joined, outcome, func_end, meshed>>
    /\ UNCHANGED meshVars

\* line 204: a script's `while True:` goes round once more, in the handler
ExportLoop ==
    /\ hpc = "exec"
    /\ ip <= Len(code_clean)
    /\ code_clean[ip].op = "loop"
    /\ spin' = ~spin
    /\ UNCHANGED <<route, hpc, code, code_clean, timeout, result_obj, result0,
                   wpc, alive, ip, elapsed, joined, outcome, func_end, meshed,
                   ran, response>>
    /\ UNCHANGED meshVars

\* lines 209-260: the script ended; the shape is exported through a
\* temporary file, and making the file or the export may fail
ExportFinish ==
    /\ hpc = "exec"
    /\ ip > Len(code_clean)
    /\ \E io \in {"ok", "no temporary file", "export failed"} :
        response' =
            IF result_obj = None
            THEN ExportReply(211, <<"No result - show_object() not called">>)
            ELSE IF ~HasVal(result_obj)
            THEN ExportReply(215, <<"Invalid result object">>)
            ELSE IF io = "no temporary file"
            THEN ExportReply(257, <<"No usable temporary directory">>)
            ELSE IF io = "export failed"
            THEN ExportReply(252, <<"STL export failed: ", "BRep_API: command not done">>)
            ELSE ExportReply(237, <<>>)
    /\ hpc' = "done"
    /\ UNCHANGED <<route, code, code_clean, timeout, result_obj, result0, wpc,
                   alive, ip, spin, elapsed, joined, outcome, func_end, meshed,
                   ran>>
    /\ UNCHANGED meshVars

ExecNext ==
    \/ ExecuteRequest
    \/ WorkerStep
    \/ WorkerLoop
    \/ WorkerReturn
    \/ WorkerExit
    \/ Tick
    \/ JoinReturns
    \/ ExecuteFinish
    \/ ExportRequest
    \/ ExportStep
    \/ ExportLoop
    \/ ExportFinish

\* ------------------------------------------------------ specifications
\* convert_to_mesh on the shapes the kernel can hand it
SpecMesh == Init /\ [][MeshNext]_vars

\* one request served by the handlers and the worker thread
SpecExec == Init /\ [][ExecNext]_vars

\* the same, with the scheduling the interpreter gives: time passes, and a
\* thread that can take a step takes one
FairSpecExec ==
    /\ SpecExec
    /\ WF_vars(Tick)
    /\ WF_vars(JoinReturns)
    /\ WF_vars(ExecuteFinish)
    /\ WF_vars(WorkerStep)
    /\ WF_vars(WorkerLoop)
    /\ WF_vars(WorkerReturn)
    /\ WF_vars(WorkerExit)
    /\ WF_vars(ExportStep)
    /\ WF_vars(ExportLoop)
    /\ WF_vars(ExportFinish)

\* ------------------------------------------------------------- claims
IsShow(st) == st.op = "show"

\* the arguments of the script's publish calls, in the order it makes them
Published(c) == [i \in 1..Len(SelectSeq(c, IsShow)) |-> SelectSeq(c, IsShow)[i].arg]

\* /execute has answered a request whose script ended before is_alive() was read
ExecuteEnded == hpc = "done" /\ route = "execute" /\ joined = "finished"

\* C1: every /execute request is answered in the end, whatever its script
\* does: the handler does not wait for the worker for ever.
C1_EveryExecuteRequestIsAnswered == (route = "execute") ~> (hpc = "done")

\* C1, for a request whose timeout is a number: the handler never waits in
\* join past the deadline, and the request is answered in the end.
C1_NumericDeadlineKept == (hpc = "join" /\ ~timeout.isNone) => elapsed <= timeout.secs

C1_NumericTimeoutIsAnswered ==
    (route = "execute" /\ ~timeout.isNone) ~> (hpc = "done")

C3_UnsafeScriptNeverRuns ==
    (route # "none" /\ ~validate_safe_code(code)) =>
        /\ ran = 0
        /\ wpc = "none"
        /\ hpc = "done" => response = UnsafeReply

\* C4: when the script raises before the deadline, the /execute reply is the
\* structured error reply of the request boundary carrying the raised
\* error's message: never a success, never the timeout reply, never no reply.
C4_RaisedErrorIsReported ==
    (ExecuteEnded /\ func_end.kind = "raised") =>
        /\ response.at = 178
        /\ response.status = 500
        /\ response.error = <<func_end.obj.v>>

\* C5: every error reply carries an error_type beside its error message.
C5_ErrorReplyHasCategory ==
    (hpc = "done" /\ response.status >= 400) =>
        {"error", "error_type"} \subseteq response.keys

\* C10: when the worker has ended before is_alive() is read, run_with_timeout
\* ends the way func ended, with func's own value or func's own error, and
\* never with the placeholder; it raises TimeoutException only when the
\* worker is still alive.
C10_CallerGetsWhatFuncProduced ==
    (outcome.kind # "pending") =>
        /\ joined = "finished" => (outcome = func_end /\ outcome.obj # Placeholder)
        /\ (outcome.kind = "raised" /\ outcome.obj.cls = "TimeoutException")
              => joined = "timeout"

\* --- the mesh, read back against the faces the explorer yielded
\* the faces among the first j that have a triangulation
RECURSIVE SumNodeCount(_, _)
SumNodeCount(fs, j) ==
    IF j = 0 THEN 0
    ELSE SumNodeCount(fs, j - 1) + (IF fs[j].hasTri THEN fs[j].nbNodes ELSE 0)

RECURSIVE SumTriangleCount(_, _)
SumTriangleCount(fs, j) ==
    IF j = 0 THEN 0
    ELSE SumTriangleCount(fs, j - 1)
         + (IF fs[j].hasTri THEN Len(fs[j].triangles) ELSE 0)

\* where face j's vertex block starts, and where its triangles start
OffsetOf(j) == SumNodeCount(explored, j - 1)

FirstTriangleOf(j) == SumTriangleCount(explored, j - 1)

\* entry c of triangle i (1-based) of face j in the index buffer
IndexEntry(j, i, c) == faces[3 * (FirstTriangleOf(j) + i - 1) + c]

\* the normal emitted for node i (1-based) of face j
EmittedNormal(j, i) ==
    LET at == 3 * (OffsetOf(j) + i - 1)
    IN <<normals[at + 1], normals[at + 2], normals[at + 3]>>

\* C6: the vertex count is the sum of NodeCount over the faces with a
\* triangulation, the index buffer holds 3 entries for each of their
\* triangles, the normal buffer is as long as the vertex buffer, and after
\* every face vertex_offset = len(vertices)/3 = len(normals)/3; a face
\* without triangulation adds nothing.
C6_BufferLengths ==
    /\ Len(vertices) = 3 * SumNodeCount(explored, Len(explored))
    /\ Len(faces) = 3 * SumTriangleCount(explored, Len(explored))
    /\ Len(normals) = Len(vertices)
    /\ 3 * vertex_offset = Len(vertices)
    /\ 3 * vertex_offset = Len(normals)

C6_Witness ==
    /\ mpc = "returned"
    /\ Len(explored) = 2
    /\ ~explored[1].hasTri
    /\ explored[2].hasTri
    /\ explored[2].nbNodes = 3
    /\ Len(explored[2].triangles) = 1
    /\ Len(vertices) = 9

\* C7: every entry of the index buffer is below the vertex count, and the
\* three entries of a triangle lie in its own face's vertex block
\* [offset, offset + NodeCount).
C7_IndicesInOwnBlock ==
    /\ \A p \in 1..Len(faces) : faces[p] >= 0 /\ 3 * faces[p] < Len(vertices)
    /\ \A j \in 1..Len(explored) : \A i \in 1..Len(explored[j].triangles) :
         \A c \in 1..3 :
            /\ IndexEntry(j, i, c) >= OffsetOf(j)
            /\ IndexEntry(j, i, c) < OffsetOf(j) + explored[j].nbNodes

C7_Witness ==
    /\ mpc = "returned"
    /\ Len(explored) = 2
    /\ explored[1].nbNodes > 0
    /\ Len(explored[2].triangles) = 1
    /\ explored[2].nbNodes > 1
    /\ IndexEntry(2, 1, 2) = vertex_offset - 1

AxisUnits ==
    {<<1, 0, 0>>, <<-1, 0, 0>>, <<0, 1, 0>>, <<0, -1, 0>>, <<0, 0, 1>>, <<0, 0, -1>>}

\* the unit vector along v; the zero vector has none and stays zero
UnitAlong(v) ==
    IF v = <<0, 0, 0>> THEN v
    ELSE CHOOSE u \in AxisUnits : Cross(u, v) = <<0, 0, 0>> /\ Dot(u, v) > 0

WorldNode(f, i) ==
    IF f.location = "rotated"
    THEN <<NodeAt(i)[3], NodeAt(i)[1], NodeAt(i)[2]>> ELSE NodeAt(i)

\* the unit normal of triangle t of face f, turned round when f is Reversed
OrientedUnitNormal(f, t) ==
    LET u == UnitAlong(Cross(Sub(WorldNode(f, t[2]), WorldNode(f, t[1])),
                             Sub(WorldNode(f, t[3]), WorldNode(f, t[1]))))
    IN IF f.orientation = TopAbs_REVERSED THEN Neg(u) ELSE u

\* the triangles of f that use node i
UsedBy(f, i) ==
    {k \in 1..Len(f.triangles) :
        i \in {f.triangles[k][1], f.triangles[k][2], f.triangles[k][3]}}

\* the sum of unit[k] over the triangles k in ks
RECURSIVE SumOver(_, _)
SumOver(unit, ks) ==
    IF ks = {} THEN <<0, 0, 0>>
    ELSE LET k == CHOOSE x \in ks : TRUE
         IN Add(unit[k], SumOver(unit, ks \ {k}))

====
